---- MODULE Spec2Model ----
(***************************************************************************)
(* Model of the taxi data service: the query API (api/main.py), the chunk  *)
(* consolidation job (scripts/consolidate_chunks.py) and the cleaning      *)
(* pipeline (scripts/spark_job.py).                                        *)
(*                                                                         *)
(* api/main.py holds two generations of the API in one file.  Run as a     *)
(* script, uvicorn.run at line 422 serves the first generation and the     *)
(* rest of the file is not executed while the server runs.  Imported as a  *)
(* module (uvicorn main:app), the whole file is executed: the routes of    *)
(* both generations are registered (the first registration of a path and  *)
(* method wins) and the global name load_parquet_data is rebound to the    *)
(* second definition, which every handler then calls.                      *)
(***************************************************************************)
EXTENDS Integers, Sequences, FiniteSets, TLC

VARIABLES
    mode,        \* how the process was started: "script" or "imported"
    fs,          \* the parquet locations the loader looks at
    table,       \* the rows stored in the parquet data
    DATA_CACHE,  \* main.py:26, the global cache dictionary
    pc,          \* per request thread: position in the handler
    loc,         \* per request thread: locals of load_parquet_data
    hist,        \* what the calls of load_parquet_data have done so far
    response,    \* per request thread: the response of its last request
    chunks,      \* consolidation: the chunk folders under PARQUET_PATH
    output,      \* consolidation: the consolidated file
    job,         \* consolidation: the locals of the running job
    run          \* cleaning pipeline: the stage reached and the row in it

apiVars == <<mode, fs, table, DATA_CACHE, pc, loc, hist, response>>

jobVars == <<chunks, output, job>>

vars == <<mode, fs, table, DATA_CACHE, pc, loc, hist, response, chunks,
          output, job, run>>

----------------------------------------------------------------------------
(* Bounds *)

NumThreads == 2     \* requests in flight at the same time
MaxRows == 2        \* rows in the stored table
MaxLimit == 2       \* the largest result limit of a request
NumChunks == 2      \* chunk folders the consolidation job may find
MaxFiles == 2       \* parquet files in one chunk folder

Threads == 1..NumThreads

----------------------------------------------------------------------------
(* Storage *)

Status == {"absent", "unreadable", "ok"}

\* pp:    PARQUET_PATH (data/processed/taxi_clean.parquet), a file or a
\*        directory of part files; "absent" when there is nothing to read
\* other: another *.parquet entry of data/processed
\* c4,c5: ./data/processed and ../data/processed, relative to the cwd
\* walk:  parquet files elsewhere under the project root
FsStates == [pp : Status, other : Status, c4 : Status, c5 : Status, walk : Status]

FsFields == {"pp", "other", "c4", "c5", "walk"}

EmptyFs ==
    [pp |-> "absent", other |-> "absent", c4 |-> "absent", c5 |-> "absent",
     walk |-> "absent"]

\* pd.read_parquet of the directory data/processed reads every fragment
DirStatus(f) ==
    IF f.pp = "absent" /\ f.other = "absent" THEN "absent"
    ELSE IF "unreadable" \in {f.pp, f.other} THEN "unreadable"
    ELSE "ok"

NumCandidates == 5

Candidates == 1..NumCandidates

\* possible_paths, in their listed order
CandStatus(f, c) ==
    CASE c = 1 -> f.pp
      [] c \in {2, 3} -> DirStatus(f)
      [] c = 4 -> f.c4
      [] c = 5 -> f.c5

WalkSrc == NumCandidates + 1
GlobSrc == NumCandidates + 2

\* the recursive os.walk fallback reads the files one by one
WalkStatus(f) ==
    IF "ok" \in {f.pp, f.other, f.walk} THEN "ok"
    ELSE IF "unreadable" \in {f.pp, f.other, f.walk} THEN "unreadable"
    ELSE "absent"

----------------------------------------------------------------------------
(* Datasets *)

NoDf == [src |-> 0, zoneType |-> "object", rows |-> <<>>]

NoCache == [k \in {} |-> NoDf]

NoHist == [loaded |-> FALSE, failed |-> FALSE]

\* i: the index into possible_paths; df: the dataset read; printed: the
\* candidate of the last "Erro ao tentar ler" line; seen: hist when the
\* request began
IdleLoc == [i |-> 0, df |-> NoDf, printed |-> 0, seen |-> NoHist]

\* A cell of the table: an integer, a string (a sequence of characters) or
\* a null
IntCell(n) == [k |-> "int", n |-> n, s |-> <<>>]

StrCell(s) == [k |-> "str", n |-> 0, s |-> s]

NullCell == [k |-> "null", n |-> 0, s |-> <<>>]

FareCells == {NullCell, IntCell(1), IntCell(2)}

ZoneCells == {NullCell, StrCell(<<"a">>)}

Rows == [fare : FareCells, zone : ZoneCells]

Columns == <<"fare", "zone">>

RECURSIVE SeqsUpTo(_, _)
SeqsUpTo(S, n) ==
    IF n = 0 THEN {<<>>}
    ELSE LET shorter == SeqsUpTo(S, n - 1)
         IN shorter \cup {Append(q, x) : q \in shorter, x \in S}

Tables == SeqsUpTo(Rows, MaxRows)

Range(q) == {q[j] : j \in DOMAIN q}

\* Series.nunique(): the number of distinct non-null values
NUnique(rows, col) ==
    Cardinality({rows[j][col] : j \in DOMAIN rows} \ {NullCell})

\* A request value: a JSON number, string, null or list
IntVal(n) == [k |-> "int", n |-> n, s |-> <<>>, items |-> <<>>]

StrVal(s) == [k |-> "str", n |-> 0, s |-> s, items |-> <<>>]

NoneVal == [k |-> "none", n |-> 0, s |-> <<>>, items |-> <<>>]

ListVal(items) == [k |-> "list", n |-> 0, s |-> <<>>, items |-> items]

\* FilterRequest (main.py:28-33) and StatsRequest (main.py:35-37), and the
\* path and query parameters of the GET endpoints
NoReq ==
    [column |-> "", operator |-> "", value |-> NoneVal, value2 |-> NoneVal,
     limit |-> 0, group_by |-> ""]

\* what went wrong, whatever status reports it
Causes == {"ok", "unavailable", "badrequest", "internal"}

\* detail: what the detail text of a failed filter names: "column",
\* "operator", "value", "value2"
NoResponse ==
    [ep |-> "none", status |-> 0, cause |-> "none", detail |-> "",
     req |-> NoReq, data |-> <<>>, count |-> 0, matches |-> 0, total |-> 0]

----------------------------------------------------------------------------
(* load_parquet_data *)

\* Begin, were a failed load remembered and reported to every later call
BeginSticky(t) ==
    /\ pc[t] = "idle"
    /\ IF hist.failed
       THEN /\ pc' = [pc EXCEPT ![t] = "respond"]
            /\ loc' = [loc EXCEPT ![t] = [IdleLoc EXCEPT !.seen = hist]]
       ELSE IF mode = "script"
       THEN IF "main_df" \in DOMAIN DATA_CACHE
            THEN /\ pc' = [pc EXCEPT ![t] = "respond"]
                 /\ loc' = [loc EXCEPT ![t] = [IdleLoc EXCEPT
                                !.df = DATA_CACHE["main_df"], !.seen = hist]]
            ELSE /\ pc' = [pc EXCEPT ![t] = "traverse"]
                 /\ loc' = [loc EXCEPT ![t] = [IdleLoc EXCEPT
                                !.i = 1, !.seen = hist]]
       ELSE /\ pc' = [pc EXCEPT ![t] = "read2"]
            /\ loc' = [loc EXCEPT ![t] = [IdleLoc EXCEPT !.seen = hist]]
    /\ response' = [response EXCEPT ![t] = NoResponse]
    /\ UNCHANGED <<mode, fs, table, DATA_CACHE, hist>>
    /\ UNCHANGED <<jobVars, run>>

\* main.py:43-44, the cache test that opens the first definition; the
\* second definition (main.py:427) has none
Begin(t) ==
    /\ pc[t] = "idle"
    /\ IF mode = "script"
       THEN IF "main_df" \in DOMAIN DATA_CACHE
            THEN /\ pc' = [pc EXCEPT ![t] = "respond"]
                 /\ loc' = [loc EXCEPT ![t] = [IdleLoc EXCEPT
                                !.df = DATA_CACHE["main_df"], !.seen = hist]]
            ELSE /\ pc' = [pc EXCEPT ![t] = "traverse"]
                 /\ loc' = [loc EXCEPT ![t] = [IdleLoc EXCEPT
                                !.i = 1, !.seen = hist]]
       ELSE /\ pc' = [pc EXCEPT ![t] = "read2"]
            /\ loc' = [loc EXCEPT ![t] = [IdleLoc EXCEPT !.seen = hist]]
    /\ response' = [response EXCEPT ![t] = NoResponse]
    /\ UNCHANGED <<mode, fs, table, DATA_CACHE, hist>>
    /\ UNCHANGED <<jobVars, run>>

\* main.py:57-72, one turn of the loop over possible_paths
TryPath(t) ==
    /\ pc[t] = "traverse"
    /\ LET c == loc[t].i
           st == CandStatus(fs, c)
           next == IF c = NumCandidates THEN "walk" ELSE "traverse"
       IN CASE st = "ok" ->
                 /\ loc' = [loc EXCEPT ![t].df =
                                [NoDf EXCEPT !.src = c, !.rows = table]]
                 /\ pc' = [pc EXCEPT ![t] = "infer"]
            [] st = "unreadable" ->
                 /\ loc' = [loc EXCEPT ![t].printed = c, ![t].i = c + 1]
                 /\ pc' = [pc EXCEPT ![t] = next]
            [] OTHER ->
                 /\ loc' = [loc EXCEPT ![t].i = c + 1]
                 /\ pc' = [pc EXCEPT ![t] = next]
    /\ UNCHANGED <<mode, fs, table, DATA_CACHE, hist, response>>
    /\ UNCHANGED <<jobVars, run>>

\* main.py:74-90 and 111-112, the recursive search and the final raise
Walk(t) ==
    /\ pc[t] = "walk"
    /\ IF WalkStatus(fs) = "ok"
       THEN /\ loc' = [loc EXCEPT ![t].df =
                           [NoDf EXCEPT !.src = WalkSrc, !.rows = table]]
            /\ pc' = [pc EXCEPT ![t] = "infer"]
            /\ hist' = hist
       ELSE /\ loc' = loc
            /\ pc' = [pc EXCEPT ![t] = "respond"]
            /\ hist' = [hist EXCEPT !.failed = TRUE]
    /\ UNCHANGED <<mode, fs, table, DATA_CACHE, response>>
    /\ UNCHANGED <<jobVars, run>>

\* main.py:99-100, an object column with few distinct values becomes a
\* category
InferZoneType(rows) ==
    IF NUnique(rows, "zone") * 2 < Len(rows) THEN "category" ELSE "object"

\* main.py:92-109, type inference and the write of the cache
Infer(t) ==
    /\ pc[t] = "infer"
    /\ LET df == [loc[t].df EXCEPT !.zoneType = InferZoneType(table)]
       IN /\ loc' = [loc EXCEPT ![t].df = df]
          /\ DATA_CACHE' = [k \in {"main_df"} |-> df]
    /\ pc' = [pc EXCEPT ![t] = "respond"]
    /\ hist' = [hist EXCEPT !.loaded = TRUE]
    /\ UNCHANGED <<mode, fs, table, response>>
    /\ UNCHANGED <<jobVars, run>>

\* main.py:431-441, what the second definition may read: PARQUET_PATH when
\* it is a directory, else the entry of its folder that glob lists first,
\* whichever that is; 0 when the read raises or there is nothing to read
Read2Srcs(f) ==
    LET ofPath == IF f.pp = "absent" THEN {}
                  ELSE {IF f.pp = "ok" THEN 1 ELSE 0}
        ofOther == IF f.other = "absent" THEN {}
                   ELSE {IF f.other = "ok" THEN GlobSrc ELSE 0}
    IN IF ofPath \cup ofOther = {} THEN {0} ELSE ofPath \cup ofOther

\* main.py:427-457, the second definition of load_parquet_data
Read2(t) ==
    /\ pc[t] = "read2"
    /\ \E src \in Read2Srcs(fs) :
          /\ loc' = [loc EXCEPT ![t].df =
                         IF src = 0 THEN NoDf
                         ELSE [NoDf EXCEPT !.src = src, !.rows = table]]
          /\ hist' = IF src = 0 THEN [hist EXCEPT !.failed = TRUE]
                     ELSE [hist EXCEPT !.loaded = TRUE]
    /\ pc' = [pc EXCEPT ![t] = "respond"]
    /\ UNCHANGED <<mode, fs, table, DATA_CACHE, response>>
    /\ UNCHANGED <<jobVars, run>>

----------------------------------------------------------------------------
(* Strings, as sequences of characters *)

\* the characters in use, in code point order
Alphabet == <<" ", ",", ".", "0", "1", "2", "N", "a", "b", "e", "n", "o">>

CharCode(ch) == CHOOSE j \in DOMAIN Alphabet : Alphabet[j] = ch

\* str.lower
LowerChar(ch) == IF ch = "N" THEN "n" ELSE ch

Lower(s) == [j \in DOMAIN s |-> LowerChar(s[j])]

\* str < str, lexicographic
RECURSIVE StrLess(_, _)
StrLess(a, b) ==
    IF b = <<>> THEN FALSE
    ELSE IF a = <<>> THEN TRUE
    ELSE IF Head(a) # Head(b) THEN CharCode(Head(a)) < CharCode(Head(b))
    ELSE StrLess(Tail(a), Tail(b))

\* str.strip
RECURSIVE LStrip(_)
LStrip(s) == IF s # <<>> /\ Head(s) = " " THEN LStrip(Tail(s)) ELSE s

RECURSIVE RStrip(_)
RStrip(s) ==
    IF s # <<>> /\ s[Len(s)] = " " THEN RStrip(SubSeq(s, 1, Len(s) - 1)) ELSE s

Strip(s) == LStrip(RStrip(s))

\* str.split(","): the pieces between the commas, empty pieces included
RECURSIVE SplitFrom(_, _, _)
SplitFrom(s, j, piece) ==
    IF j > Len(s) THEN <<piece>>
    ELSE IF s[j] = "," THEN <<piece>> \o SplitFrom(s, j + 1, <<>>)
    ELSE SplitFrom(s, j + 1, Append(piece, s[j]))

Split(s) == SplitFrom(s, 1, <<>>)

\* str() of a small non-negative integer
Digits == <<"0", "1", "2", "3", "4", "5", "6", "7", "8", "9">>

IntStr(n) == <<Digits[n + 1]>>

----------------------------------------------------------------------------
(* Requests *)

\* the dtype pandas gives the column
DType(df, col) ==
    IF col = "fare"
    THEN (IF \E j \in DOMAIN df.rows : df.rows[j].fare = NullCell
          THEN "float64" ELSE "int64")
    ELSE df.zoneType

IsNumeric(df, col) == DType(df, col) \in {"int64", "float64"}

----------------------------------------------------------------------------
(* apply_filter, main.py:114-154 *)

Min(a, b) == IF a < b THEN a ELSE b

\* DataFrame.head(n)
HeadRows(rows, n) == SubSeq(rows, 1, Min(n, Len(rows)))

Ordering == {"gt", "lt", "gte", "lte"}

Operators == {"eq", "in", "between", "contains"} \cup Ordering

\* element == value: never true of a null or across types
CellEq(c, v) ==
    /\ c.k \in {"int", "str"}
    /\ c.k = v.k
    /\ c.n = v.n
    /\ c.s = v.s

\* element <op> value for two integers or two strings
CellOrd(op, c, v) ==
    LET less == IF c.k = "int" THEN c.n < v.n ELSE StrLess(c.s, v.s)
        same == c.n = v.n /\ c.s = v.s
    IN CASE op = "lt" -> less
         [] op = "lte" -> less \/ same
         [] op = "gt" -> ~less /\ ~same
         [] op = "gte" -> ~less

\* df[column] <op> value raises: an unordered categorical has no order, a
\* numeric column cannot be compared with a string, nor a string element
\* with a number; a comparison with None raises nothing
CompareRaises(df, col, v) ==
    IF DType(df, col) = "category" THEN TRUE
    ELSE IF v.k = "none" THEN FALSE
    ELSE IF IsNumeric(df, col) THEN v.k = "str"
    ELSE v.k = "int" /\ \E j \in DOMAIN df.rows : df.rows[j][col] # NullCell

CompareMatch(op, c, v) == c.k \in {"int", "str"} /\ c.k = v.k /\ CellOrd(op, c, v)

\* main.py:139-140, a string is split at the commas and the pieces are
\* stripped; they stay strings
InValues(v) ==
    IF v.k = "str"
    THEN LET pieces == Split(v.s)
         IN [j \in DOMAIN pieces |-> StrCell(Strip(pieces[j]))]
    ELSE v.items

\* Series.astype(str) of one element
AsStr(df, col, c) ==
    CASE c.k = "str" -> c.s
      [] c.k = "int" ->
           IF DType(df, col) = "float64" THEN IntStr(c.n) \o <<".", "0">>
           ELSE IntStr(c.n)
      [] OTHER ->
           IF DType(df, col) = "object" THEN <<"N", "o", "n", "e">>
           ELSE <<"n", "a", "n">>

\* str(value)
ValueStr(v) ==
    CASE v.k = "str" -> v.s
      [] v.k = "int" -> IntStr(v.n)
      [] OTHER -> <<"N", "o", "n", "e">>

\* Series.str.contains(pat, case=False): pat is a regular expression, in
\* which "." stands for any character
RegexFound(pat, hay) ==
    \E j \in 0..(Len(hay) - Len(pat)) :
        \A m \in 1..Len(pat) :
            pat[m] = "." \/ LowerChar(pat[m]) = LowerChar(hay[j + m])

\* main.py:118, operator.lower()
LowerOp(op) == IF op = "EQ" THEN "eq" ELSE op

\* the exception of apply_filter, "" when it raises none
FilterError(df, req) ==
    LET op == LowerOp(req.operator)
        col == req.column
    IN IF col \notin Range(Columns) THEN "column"
       ELSE CASE op = "eq" -> ""
              [] op \in Ordering ->
                   IF CompareRaises(df, col, req.value) THEN "value" ELSE ""
              [] op = "in" ->
                   IF req.value.k \in {"str", "list"} THEN "" ELSE "value"
              [] op = "between" ->
                   IF req.value2.k = "none" THEN "value2"
                   ELSE IF \/ CompareRaises(df, col, req.value)
                           \/ CompareRaises(df, col, req.value2)
                        THEN "value" ELSE ""
              [] op = "contains" -> ""
              [] OTHER -> "operator"

\* the row test of each operator
Matches(df, req, row) ==
    LET op == LowerOp(req.operator)
        c == row[req.column]
    IN CASE op = "eq" -> CellEq(c, req.value)
         [] op \in Ordering -> CompareMatch(op, c, req.value)
         [] op = "in" ->
              \E j \in DOMAIN InValues(req.value) :
                  CellEq(c, InValues(req.value)[j])
         [] op = "between" ->
              /\ CompareMatch("gte", c, req.value)
              /\ CompareMatch("lte", c, req.value2)
         [] op = "contains" ->
              RegexFound(ValueStr(req.value), AsStr(df, req.column, c))

\* main.py:128-147, the rows the predicate selects, in their order
MatchingRows(df, req) ==
    LET Test(row) == Matches(df, req, row)
    IN SelectSeq(df.rows, Test)

\* main.py:151, the rows apply_filter returns
ApplyFilter(df, req) ==
    IF req.limit # 0 THEN HeadRows(MatchingRows(df, req), req.limit)
    ELSE MatchingRows(df, req)

----------------------------------------------------------------------------
(* The handlers of the first generation, main.py:174-417 *)

Failure(ep, req, status, cause) ==
    [NoResponse EXCEPT !.ep = ep, !.req = req, !.status = status,
                       !.cause = cause]

\* main.py:275-288, a row as JSON.  iterrows hands out the values of a
\* frame of mixed dtypes as Python objects, which are neither np.int64 nor
\* np.float64, so a number takes the str(val) branch
JsonCell(df, col, c) ==
    IF c = NullCell THEN NullCell ELSE StrCell(AsStr(df, col, c))

JsonRow(df, row) ==
    [fare |-> JsonCell(df, "fare", row.fare),
     zone |-> JsonCell(df, "zone", row.zone)]

JsonRows(df, rows) == [j \in DOMAIN rows |-> JsonRow(df, rows[j])]

\* main.py:174-191
HealthCheck(req, df) ==
    IF df.src = 0 THEN Failure("health", req, 200, "unavailable")
    ELSE [NoResponse EXCEPT !.ep = "health", !.req = req, !.status = 200,
                            !.cause = "ok", !.total = Len(df.rows)]

\* main.py:193-230
GetColumns(req, df) ==
    IF df.src = 0 THEN Failure("columns", req, 500, "unavailable")
    ELSE [NoResponse EXCEPT !.ep = "columns", !.req = req, !.status = 200,
                            !.cause = "ok", !.total = Len(Columns)]

\* main.py:232-264
Preview(req, df) ==
    IF df.src = 0 THEN Failure("preview", req, 500, "unavailable")
    ELSE LET rows == HeadRows(df.rows, req.limit)
         IN [NoResponse EXCEPT !.ep = "preview", !.req = req, !.status = 200,
                               !.cause = "ok", !.data = JsonRows(df, rows),
                               !.count = Len(rows), !.total = Len(df.rows)]

\* FilterData, were an exception of apply_filter answered with an empty
\* result
FilterDataSilent(req, df) ==
    IF df.src = 0 THEN Failure("filter", req, 400, "unavailable")
    ELSE LET filtered_df == IF FilterError(df, req) # "" THEN <<>>
                            ELSE ApplyFilter(df, req)
         IN [NoResponse EXCEPT !.ep = "filter", !.req = req, !.status = 200,
                               !.cause = "ok",
                               !.data = JsonRows(df, filtered_df),
                               !.count = Len(filtered_df),
                               !.total = Len(df.rows)]

\* main.py:266-303: the HTTPException of the load and of apply_filter are
\* both caught by "except Exception" and raised again with status 400
FilterData(req, df) ==
    IF df.src = 0 THEN Failure("filter", req, 400, "unavailable")
    ELSE IF FilterError(df, req) # ""
         THEN [Failure("filter", req, 400, "badrequest")
                 EXCEPT !.detail = FilterError(df, req)]
    ELSE LET filtered_df == ApplyFilter(df, req)
         IN [NoResponse EXCEPT !.ep = "filter", !.req = req, !.status = 200,
                               !.cause = "ok",
                               !.data = JsonRows(df, filtered_df),
                               !.count = Len(filtered_df),
                               !.total = Len(df.rows)]

\* Series.count(): the non-null values
NonNull(rows, col) == Cardinality({j \in DOMAIN rows : rows[j][col] # NullCell})

\* main.py:305-357, with columns = [req.column]
GetStatistics(req, df) ==
    IF df.src = 0 THEN Failure("stats", req, 400, "unavailable")
    ELSE IF req.column \notin Range(Columns)
         THEN Failure("stats", req, 400, "badrequest")
    ELSE IF req.group_by # "" /\ req.group_by \notin Range(Columns)
         THEN Failure("stats", req, 400, "badrequest")
    ELSE [NoResponse EXCEPT !.ep = "stats", !.req = req, !.status = 200,
                            !.cause = "ok",
                            !.count = NonNull(df.rows, req.column)]

\* main.py:359-396
GetSummary(req, df) ==
    IF df.src = 0 THEN Failure("summary", req, 500, "unavailable")
    ELSE [NoResponse EXCEPT !.ep = "summary", !.req = req, !.status = 200,
                            !.cause = "ok", !.count = Len(Columns),
                            !.total = Len(df.rows)]

\* main.py:398-417: the 404 of an unknown column is raised inside the try
\* and caught by "except Exception", which raises 500
GetUniqueValues(req, df) ==
    IF df.src = 0 THEN Failure("unique", req, 500, "unavailable")
    ELSE IF req.column \notin Range(Columns)
         THEN Failure("unique", req, 500, "badrequest")
    ELSE [NoResponse EXCEPT !.ep = "unique", !.req = req, !.status = 200,
                            !.cause = "ok",
                            !.count = Min(req.limit, NUnique(df.rows, req.column)),
                            !.total = NUnique(df.rows, req.column)]

----------------------------------------------------------------------------
(* The handlers of the second generation, main.py:536-648 *)

IsDigit(ch) == ch \in {"0", "1", "2"}

DigitVal(ch) == CharCode(ch) - CharCode("0")

RECURSIVE DecVal(_)
DecVal(ds) ==
    IF ds = <<>> THEN 0
    ELSE 10 * DecVal(SubSeq(ds, 1, Len(ds) - 1)) + DigitVal(ds[Len(ds)])

\* float(text), for texts with at most one digit after the point: the
\* number in tenths, a NaN, or a ValueError
ParseFloat(text) ==
    LET t == Strip(text)
        dots == {j \in DOMAIN t : t[j] = "."}
        cut == IF dots = {} THEN Len(t) + 1 ELSE CHOOSE j \in dots : TRUE
        whole == SubSeq(t, 1, cut - 1)
        frac == SubSeq(t, cut + 1, Len(t))
        wellFormed ==
            /\ Cardinality(dots) <= 1
            /\ \A j \in DOMAIN whole : IsDigit(whole[j])
            /\ \A j \in DOMAIN frac : IsDigit(frac[j])
            /\ Len(frac) <= 1
            /\ Len(whole) + Len(frac) >= 1
    IN IF Lower(t) = <<"n", "a", "n">>
       THEN [ok |-> TRUE, nan |-> TRUE, n10 |-> 0]
       ELSE IF wellFormed
       THEN [ok |-> TRUE, nan |-> FALSE,
             n10 |-> 10 * DecVal(whole) + DecVal(frac)]
       ELSE [ok |-> FALSE, nan |-> FALSE, n10 |-> 0]

\* main.py:585-628, the status of the exception the operator branch
\* raises, 0 when it raises none
FilterGetError(df, req) ==
    LET op == req.operator
        col == req.column
        p == ParseFloat(req.value.s)
        pieces == InValues(req.value)
    IN CASE op = "eq" ->
              IF IsNumeric(df, col)
                 /\ (~p.ok \/ (p.nan /\ DType(df, col) = "int64"))
              THEN 400 ELSE 0
         [] op \in Ordering ->
              IF ~p.ok THEN 500
              ELSE IF CompareRaises(df, col, IntVal(0)) THEN 500
              ELSE 0
         [] op = "in" ->
              IF IsNumeric(df, col)
                 /\ \E j \in DOMAIN pieces :
                        LET q == ParseFloat(pieces[j].s)
                        IN ~q.ok \/ (q.nan /\ DType(df, col) = "int64")
              THEN 500 ELSE 0
         [] op = "contains" ->
              IF DType(df, col) = "object" THEN 0 ELSE 400
         [] OTHER -> 400

\* what the detail text of that exception names
FilterGetDetail(df, req) ==
    LET op == req.operator
    IN CASE op \in {"eq", "in"} -> "value"
         [] op \in Ordering ->
              IF ParseFloat(req.value.s).ok THEN "compare" ELSE "value"
         [] OTHER -> "operator"

\* element == number, after int(value) on an int64 column
NumEq(df, col, c, p) ==
    IF DType(df, col) = "int64"
    THEN c.k = "int" /\ c.n = p.n10 \div 10
    ELSE c.k = "int" /\ ~p.nan /\ 10 * c.n = p.n10

\* element <op> number
NumOrd(op, c, p) ==
    /\ c.k = "int"
    /\ ~p.nan
    /\ CASE op = "lt" -> 10 * c.n < p.n10
         [] op = "lte" -> 10 * c.n <= p.n10
         [] op = "gt" -> 10 * c.n > p.n10
         [] op = "gte" -> 10 * c.n >= p.n10

\* main.py:585-623, the row test of each operator
FilterGetMatches(df, req, row) ==
    LET op == req.operator
        col == req.column
        c == row[col]
        p == ParseFloat(req.value.s)
        pieces == InValues(req.value)
    IN CASE op = "eq" ->
              IF IsNumeric(df, col) THEN NumEq(df, col, c, p)
              ELSE CellEq(c, req.value)
         [] op \in Ordering -> NumOrd(op, c, p)
         [] op = "in" ->
              IF IsNumeric(df, col)
              THEN \E j \in DOMAIN pieces :
                      LET q == ParseFloat(pieces[j].s)
                      IN \/ NumEq(df, col, c, q)
                         \/ c = NullCell /\ q.nan
              ELSE \E j \in DOMAIN pieces : CellEq(c, pieces[j])
         [] op = "contains" ->
              c.k = "str" /\ RegexFound(req.value.s, c.s)

\* main.py:569-648, GET /filter
FilterDataGet(req, df) ==
    IF df.src = 0 THEN Failure("filter_get", req, 500, "unavailable")
    ELSE IF req.column \notin Range(Columns)
         THEN [Failure("filter_get", req, 400, "badrequest")
                 EXCEPT !.detail = "column"]
    ELSE IF FilterGetError(df, req) # 0
         THEN [Failure("filter_get", req, FilterGetError(df, req), "badrequest")
                 EXCEPT !.detail = FilterGetDetail(df, req)]
    ELSE LET Test(row) == FilterGetMatches(df, req, row)
             df_filtered == SelectSeq(df.rows, Test)
             df_result == HeadRows(df_filtered, req.limit)
         IN [NoResponse EXCEPT !.ep = "filter_get", !.req = req,
                               !.status = 200, !.cause = "ok",
                               !.data = df_result,
                               !.count = Len(df_result),
                               !.matches = Len(df_filtered)]

\* main.py:536-567, GET /stats
GetStatisticsGet(req, df) ==
    IF df.src = 0 THEN Failure("stats_get", req, 500, "unavailable")
    ELSE [NoResponse EXCEPT !.ep = "stats_get", !.req = req, !.status = 200,
                            !.cause = "ok", !.count = Len(Columns),
                            !.total = Len(df.rows)]

----------------------------------------------------------------------------
(* Requests and the dispatch to the handlers *)

ColumnNames == Range(Columns) \cup {"nosuch"}

Call(ep, req) == [ep |-> ep, req |-> req]

\* the JSON values of a POST /filter body; a list only with operator "in"
ScalarValues ==
    {NoneVal, IntVal(1), IntVal(2), StrVal(<<"a">>), StrVal(<<"1", ",", "2">>)}

ListValues == {ListVal(<<IntCell(1), IntCell(2)>>), ListVal(<<StrCell(<<"a">>)>>)}

FilterReqs ==
    {[NoReq EXCEPT !.column = c, !.operator = o, !.value = v, !.limit = l] :
        c \in ColumnNames, o \in (Operators \ {"between"}) \cup {"EQ", "like"},
        v \in ScalarValues, l \in 0..MaxLimit}
    \cup
    {[NoReq EXCEPT !.column = c, !.operator = "in", !.value = v, !.limit = l] :
        c \in ColumnNames, v \in ListValues, l \in 0..MaxLimit}
    \cup
    {[NoReq EXCEPT !.column = c, !.operator = "between", !.value = v,
                   !.value2 = w, !.limit = l] :
        c \in ColumnNames, v \in {IntVal(1), StrVal(<<"a">>)},
        w \in {NoneVal, IntVal(1), IntVal(2)}, l \in 0..MaxLimit}

\* the query strings of GET /filter
QueryTexts ==
    {<<"1">>, <<"a">>, <<"1", ",", "2">>, <<"n", "a", "n">>, <<"1", ".", "0">>}

FilterGetReqs ==
    {[NoReq EXCEPT !.column = c, !.operator = o, !.value = StrVal(v),
                   !.limit = l] :
        c \in ColumnNames, o \in Operators \cup {"like"},
        v \in QueryTexts, l \in 1..MaxLimit}

StatsReqs ==
    {[NoReq EXCEPT !.column = c, !.group_by = g] :
        c \in ColumnNames, g \in {"", "zone", "nosuch"}}

UniqueReqs ==
    {[NoReq EXCEPT !.column = c, !.limit = l] :
        c \in ColumnNames, l \in 1..MaxLimit}

PreviewReqs == {[NoReq EXCEPT !.limit = l] : l \in 1..MaxLimit}

\* the routes that answer: registered first wins, so the imported module
\* adds only the routes the first generation does not have
Calls(m) ==
    {Call(ep, NoReq) : ep \in {"health", "columns", "summary"}}
    \cup {Call("preview", r) : r \in PreviewReqs}
    \cup {Call("filter", r) : r \in FilterReqs}
    \cup {Call("stats", r) : r \in StatsReqs}
    \cup {Call("unique", r) : r \in UniqueReqs}
    \cup (IF m = "imported"
          THEN {Call("filter_get", r) : r \in FilterGetReqs}
               \cup {Call("stats_get", NoReq)}
          ELSE {})

\* a few requests of each kind
FewCalls(m) ==
    {c \in Calls(m) :
        /\ c.req.limit \in {0, 1}
        /\ c.req.column \in {"", "fare", "nosuch"}
        /\ c.req.operator \in {"", "eq"}
        /\ c.req.value \in {NoneVal, IntVal(1), StrVal(<<"1">>)}
        /\ c.req.group_by = ""}

Respond(c, df) ==
    CASE c.ep = "health" -> HealthCheck(c.req, df)
      [] c.ep = "columns" -> GetColumns(c.req, df)
      [] c.ep = "preview" -> Preview(c.req, df)
      [] c.ep = "filter" -> FilterData(c.req, df)
      [] c.ep = "stats" -> GetStatistics(c.req, df)
      [] c.ep = "summary" -> GetSummary(c.req, df)
      [] c.ep = "unique" -> GetUniqueValues(c.req, df)
      [] c.ep = "filter_get" -> FilterDataGet(c.req, df)
      [] c.ep = "stats_get" -> GetStatisticsGet(c.req, df)

\* DatasetAfter, were the filter to keep its result in the frame it was given
DatasetAfterInPlace(c, df) ==
    IF c.ep = "filter" /\ df.src # 0 /\ FilterError(df, c.req) = ""
    THEN [df EXCEPT !.rows = ApplyFilter(df, c.req)]
    ELSE df

\* the frame load_parquet_data returned, as the handler leaves it: df[mask]
\* and df.head(n).copy() are new frames (main.py:129-147, 522), and the
\* column assignments of main.py:634-636 go to df_result, a frame taken
\* from such a copy, so no handler writes to the frame it was given
DatasetAfter(c, df) == df

\* the handler, from the return of load_parquet_data to the response; the
\* frame of the handler is the object in the cache when the cache holds it
Handle(t, calls) ==
    /\ pc[t] = "respond"
    /\ \E c \in calls :
          /\ response' = [response EXCEPT ![t] = Respond(c, loc[t].df)]
          /\ loc' = [loc EXCEPT ![t].df = DatasetAfter(c, @)]
          /\ DATA_CACHE' =
                IF "main_df" \in DOMAIN DATA_CACHE
                   /\ DATA_CACHE["main_df"] = loc[t].df
                THEN [DATA_CACHE EXCEPT !["main_df"] = DatasetAfter(c, @)]
                ELSE DATA_CACHE
    /\ pc' = [pc EXCEPT ![t] = "idle"]
    /\ UNCHANGED <<mode, fs, table, hist>>
    /\ UNCHANGED <<jobVars, run>>

----------------------------------------------------------------------------
(* The environment of the service *)

\* any change of one of the locations
FilesChange ==
    /\ \E field \in FsFields, st \in Status :
          /\ fs[field] # st
          /\ fs' = [fs EXCEPT ![field] = st]
    /\ UNCHANGED <<mode, table, DATA_CACHE, pc, loc, hist, response>>
    /\ UNCHANGED <<jobVars, run>>

\* spark_job.py:128-132 writes PARQUET_PATH
OutputWritten ==
    /\ fs.pp # "ok"
    /\ fs' = [fs EXCEPT !.pp = "ok"]
    /\ UNCHANGED <<mode, table, DATA_CACHE, pc, loc, hist, response>>
    /\ UNCHANGED <<jobVars, run>>

\* mode("overwrite") removes the previous output first
OutputRemoved ==
    /\ fs.pp # "absent"
    /\ fs' = [fs EXCEPT !.pp = "absent"]
    /\ UNCHANGED <<mode, table, DATA_CACHE, pc, loc, hist, response>>
    /\ UNCHANGED <<jobVars, run>>

----------------------------------------------------------------------------
(* scripts/consolidate_chunks.py *)

ChunkIds == 1..NumChunks

\* a chunk folder: whether it is on disk, and the parquet files it holds (or
\* held before it was removed) in the order glob lists them
ChunkStates ==
    [present : BOOLEAN, files : SeqsUpTo({"ok", "unreadable"}, MaxFiles)]

NoOutput == [state |-> "absent", content |-> <<>>]

\* the file a previous run left
OldOutput == [state |-> "complete", content |-> <<<<0, 0>>>>]

\* path: PARQUET_PATH is set; folders: sorted(chunk_folders); i: the loop
\* index; all_data: the files read, <<chunk, file>>; result: the value
\* returned, "" while the job runs
NewJob(path) ==
    [pc |-> "start", path |-> path, folders |-> <<>>, i |-> 0,
     all_data |-> <<>>, result |-> ""]

\* sorted(): the elements of S in increasing order
RECURSIVE Sorted(_)
Sorted(S) ==
    IF S = {} THEN <<>>
    ELSE LET m == CHOOSE x \in S : \A y \in S : x <= y
         IN <<m>> \o Sorted(S \ {m})

\* consolidate_chunks.py:13-29
StartJob ==
    /\ job.pc = "start"
    /\ LET found == {c \in ChunkIds : chunks[c].present}
       IN IF ~job.path \/ found = {}
          THEN job' = [job EXCEPT !.pc = "done", !.result = "None"]
          ELSE job' = [job EXCEPT !.pc = "loop", !.folders = Sorted(found),
                                  !.i = 1]
    /\ UNCHANGED <<chunks, output, run>>
    /\ UNCHANGED apiVars

\* the loop index after this turn, and where the loop ends
NextTurn(j) ==
    IF j.i = Len(j.folders) THEN [j EXCEPT !.pc = "consolidate"]
    ELSE [j EXCEPT !.i = j.i + 1]

\* ProcessChunk, were the folder removed whether or not its file was read
ProcessChunkEager ==
    /\ job.pc = "loop"
    /\ LET c == job.folders[job.i]
           files == chunks[c].files
       IN IF files = <<>>
          THEN /\ job' = NextTurn(job)
               /\ chunks' = chunks
          ELSE /\ job' = NextTurn(IF files[1] = "unreadable" THEN job
                                  ELSE [job EXCEPT !.all_data = Append(@, <<c, 1>>)])
               /\ \E removed \in BOOLEAN :
                     chunks' = [chunks EXCEPT ![c].present = ~removed]
    /\ UNCHANGED <<output, run>>
    /\ UNCHANGED apiVars

\* consolidate_chunks.py:35-61, one turn of the loop: a folder without
\* parquet files is skipped, the first file is read and appended, the
\* folder is removed; an exception of the read or of rmtree ends the turn
ProcessChunk ==
    /\ job.pc = "loop"
    /\ LET c == job.folders[job.i]
           files == chunks[c].files
       IN IF files = <<>> \/ files[1] = "unreadable"
          THEN /\ job' = NextTurn(job)
               /\ chunks' = chunks
          ELSE /\ job' = NextTurn([job EXCEPT !.all_data = Append(@, <<c, 1>>)])
               /\ \E removed \in BOOLEAN :
                     chunks' = [chunks EXCEPT ![c].present = ~removed]
    /\ UNCHANGED <<output, run>>
    /\ UNCHANGED apiVars

\* consolidate_chunks.py:63-94: nothing read returns None; pd.concat or
\* to_parquet may raise, which returns None; else the file is written and
\* its path returned
Consolidate ==
    /\ job.pc = "consolidate"
    /\ IF job.all_data = <<>>
       THEN /\ job' = [job EXCEPT !.pc = "done", !.result = "None"]
            /\ output' = output
       ELSE \E outcome \in {"written", "concat raises", "write raises"} :
              CASE outcome = "written" ->
                     /\ output' = [state |-> "complete",
                                   content |-> job.all_data]
                     /\ job' = [job EXCEPT !.pc = "done", !.result = "path"]
                [] outcome = "concat raises" ->
                     /\ output' = output
                     /\ job' = [job EXCEPT !.pc = "done", !.result = "None"]
                [] outcome = "write raises" ->
                     /\ output' \in {output, [state |-> "partial",
                                              content |-> <<>>]}
                     /\ job' = [job EXCEPT !.pc = "done", !.result = "None"]
    /\ UNCHANGED <<chunks, run>>
    /\ UNCHANGED apiVars

\* the chunk folders this run has removed
Deleted == {c \in Range(job.folders) : ~chunks[c].present}

----------------------------------------------------------------------------
(* scripts/spark_job.py, followed for one row of the input *)

\* a null of a nullable number
Null == -1000

\* a timestamp column: null, a text the format does not parse, or an
\* instant given by its year and the second within the year
NullTs == [k |-> "null", year |-> 0, sec |-> 0]

BadTs == [k |-> "bad", year |-> 0, sec |-> 0]

Instant(y, sec) == [k |-> "time", year |-> y, sec |-> sec]

YearSeconds == 31536000

\* unix_timestamp
UnixTime(ts) == (ts.year - 2017) * YearSeconds + ts.sec

PickupTexts == {NullTs, BadTs, Instant(2018, 0), Instant(2018, 60), Instant(2017, 0)}

DropoffTexts ==
    {NullTs, BadTs, Instant(2018, 0), Instant(2018, 30), Instant(2018, 60),
     Instant(2018, 120), Instant(2018, 28920), Instant(2019, 0)}

\* the columns of the schema (spark_job.py:30-48) that a filter or a derived
\* column reads, and the derived columns, null until they are computed;
\* a duration is kept in seconds and a quotient as numerator and denominator
RawRows ==
    [tpep_pickup_datetime : PickupTexts, tpep_dropoff_datetime : DropoffTexts,
     passenger_count : {Null, 0, 1, 8, 9}, trip_distance : {Null, 0, 1, 2},
     fare_amount : {Null, 0, 10}, total_amount : {Null, 0, 12},
     tip_amount : {Null, -1, 2, 6}, RatecodeID : {1, 99},
     payment_type : {1, 7},
     trip_duration_seconds : {Null}, pickup_hour : {Null},
     speed_mph : {[num |-> 0, den |-> 1]},
     tip_percentage : {[num |-> 0, den |-> 1]}]

Stages ==
    <<"Read", "ValidityFilter", "DeriveColumns", "DateFilter", "Enrichment",
      "RangeFilter", "Write">>

\* stage: the stage that comes next; trace: the stages the row has been
\* through; droppedAt: the filter that removed it; written: it is in the
\* output
NewRun(row) ==
    [stage |-> "Read", row |-> row, trace |-> <<>>, droppedAt |-> "",
     written |-> FALSE]

Advance(r, done, next) == [r EXCEPT !.stage = next, !.trace = Append(@, done)]

Drop(r, done) ==
    [r EXCEPT !.stage = "Done", !.trace = Append(@, done), !.droppedAt = done]

\* spark_job.py:61
Read ==
    /\ run.stage = "Read"
    /\ run' = Advance(run, "Read", "ValidityFilter")
    /\ UNCHANGED jobVars
    /\ UNCHANGED apiVars

\* ValidRow, were a fare_amount of zero let through
ValidRowZeroFare(row) ==
    /\ row.tpep_pickup_datetime.k # "null"
    /\ row.tpep_dropoff_datetime.k # "null"
    /\ row.passenger_count # Null
    /\ row.trip_distance # Null
    /\ row.fare_amount # Null
    /\ row.passenger_count >= 1 /\ row.passenger_count <= 8
    /\ row.trip_distance > 0 /\ row.trip_distance < 500
    /\ row.fare_amount >= 0 /\ row.fare_amount < 1000
    /\ row.total_amount # Null
    /\ row.total_amount > 0 /\ row.total_amount < 1000
    /\ row.tip_amount # Null /\ row.tip_amount >= 0
    /\ row.RatecodeID \in {1, 2, 3, 4, 5, 6}
    /\ row.payment_type \in {1, 2, 3, 4, 5, 6}

\* ValidRow, were the upper bound of passenger_count off by one
ValidRowLoose(row) ==
    /\ row.tpep_pickup_datetime.k # "null"
    /\ row.tpep_dropoff_datetime.k # "null"
    /\ row.passenger_count # Null
    /\ row.trip_distance # Null
    /\ row.fare_amount # Null
    /\ row.passenger_count >= 1 /\ row.passenger_count <= 9
    /\ row.trip_distance > 0 /\ row.trip_distance < 500
    /\ row.fare_amount > 0 /\ row.fare_amount < 1000
    /\ row.total_amount # Null
    /\ row.total_amount > 0 /\ row.total_amount < 1000
    /\ row.tip_amount # Null /\ row.tip_amount >= 0
    /\ row.RatecodeID \in {1, 2, 3, 4, 5, 6}
    /\ row.payment_type \in {1, 2, 3, 4, 5, 6}

\* spark_job.py:64-77; a comparison with a null is not true
ValidRow(row) ==
    /\ row.tpep_pickup_datetime.k # "null"
    /\ row.tpep_dropoff_datetime.k # "null"
    /\ row.passenger_count # Null
    /\ row.trip_distance # Null
    /\ row.fare_amount # Null
    /\ row.passenger_count >= 1 /\ row.passenger_count <= 8
    /\ row.trip_distance > 0 /\ row.trip_distance < 500
    /\ row.fare_amount > 0 /\ row.fare_amount < 1000
    /\ row.total_amount # Null
    /\ row.total_amount > 0 /\ row.total_amount < 1000
    /\ row.tip_amount # Null /\ row.tip_amount >= 0
    /\ row.RatecodeID \in {1, 2, 3, 4, 5, 6}
    /\ row.payment_type \in {1, 2, 3, 4, 5, 6}

ValidityFilter ==
    /\ run.stage = "ValidityFilter"
    /\ run' = IF ValidRow(run.row)
              THEN Advance(run, "ValidityFilter", "DeriveColumns")
              ELSE Drop(run, "ValidityFilter")
    /\ UNCHANGED jobVars
    /\ UNCHANGED apiVars

\* to_timestamp: null for a text the format does not parse
ToTimestamp(ts) == IF ts.k = "time" THEN ts ELSE NullTs

\* spark_job.py:81-87
DeriveColumns ==
    /\ run.stage = "DeriveColumns"
    /\ run' = Advance(
                 [run EXCEPT !.row.tpep_pickup_datetime = ToTimestamp(@),
                             !.row.tpep_dropoff_datetime = ToTimestamp(@)],
                 "DeriveColumns", "DateFilter")
    /\ UNCHANGED jobVars
    /\ UNCHANGED apiVars

\* DateOk, were the comparison of the two instants not strict
DateOkLoose(row) ==
    /\ row.tpep_pickup_datetime.k # "null"
    /\ row.tpep_dropoff_datetime.k # "null"
    /\ UnixTime(row.tpep_pickup_datetime) <= UnixTime(row.tpep_dropoff_datetime)
    /\ row.tpep_pickup_datetime.year = 2018
    /\ row.tpep_dropoff_datetime.year = 2018

\* spark_job.py:90-96
DateOk(row) ==
    /\ row.tpep_pickup_datetime.k # "null"
    /\ row.tpep_dropoff_datetime.k # "null"
    /\ UnixTime(row.tpep_pickup_datetime) < UnixTime(row.tpep_dropoff_datetime)
    /\ row.tpep_pickup_datetime.year = 2018
    /\ row.tpep_dropoff_datetime.year = 2018

DateFilter ==
    /\ run.stage = "DateFilter"
    /\ run' = IF DateOk(run.row)
              THEN Advance(run, "DateFilter", "Enrichment")
              ELSE Drop(run, "DateFilter")
    /\ UNCHANGED jobVars
    /\ UNCHANGED apiVars

\* spark_job.py:99-118; pickup_day_of_week and pickup_month are derived too
\* and feed no filter.  trip_duration_minutes is seconds / 60, so
\* speed_mph = trip_distance / (seconds / 3600)
Enriched(row) ==
    LET seconds == UnixTime(row.tpep_dropoff_datetime)
                   - UnixTime(row.tpep_pickup_datetime)
    IN [row EXCEPT
          !.trip_duration_seconds = seconds,
          !.pickup_hour = (row.tpep_pickup_datetime.sec \div 3600) % 24,
          !.speed_mph = IF seconds > 0
                        THEN [num |-> row.trip_distance * 3600, den |-> seconds]
                        ELSE [num |-> 0, den |-> 1],
          !.tip_percentage = IF row.fare_amount > 0
                             THEN [num |-> row.tip_amount * 100,
                                   den |-> row.fare_amount]
                             ELSE [num |-> 0, den |-> 1]]

Enrichment ==
    /\ run.stage = "Enrichment"
    /\ run' = Advance([run EXCEPT !.row = Enriched(@)], "Enrichment",
                      "RangeFilter")
    /\ UNCHANGED jobVars
    /\ UNCHANGED apiVars

\* spark_job.py:121-125; the denominators are positive
RangeOk(row) ==
    /\ row.trip_duration_seconds >= 60
    /\ row.trip_duration_seconds <= 480 * 60
    /\ row.speed_mph.num >= 0
    /\ row.speed_mph.num <= 80 * row.speed_mph.den
    /\ row.tip_percentage.num >= 0
    /\ row.tip_percentage.num <= 50 * row.tip_percentage.den

RangeFilter ==
    /\ run.stage = "RangeFilter"
    /\ run' = IF RangeOk(run.row)
              THEN Advance(run, "RangeFilter", "Write")
              ELSE Drop(run, "RangeFilter")
    /\ UNCHANGED jobVars
    /\ UNCHANGED apiVars

\* spark_job.py:128-132
Write ==
    /\ run.stage = "Write"
    /\ run' = [Advance(run, "Write", "Done") EXCEPT !.written = TRUE]
    /\ UNCHANGED jobVars
    /\ UNCHANGED apiVars

----------------------------------------------------------------------------
(* Specifications *)

SampleTables ==
    {<<[fare |-> IntCell(1), zone |-> StrCell(<<"a">>)],
       [fare |-> IntCell(1), zone |-> NullCell]>>}

\* a row of the input, while the pipeline is not followed
SampleRow == CHOOSE row \in RawRows : TRUE

\* the two scripts have not started
InitScripts ==
    /\ chunks = [c \in ChunkIds |-> [present |-> FALSE, files |-> <<>>]]
    /\ output = NoOutput
    /\ job = NewJob(FALSE)
    /\ run = NewRun(SampleRow)

InitApi(tables, files) ==
    /\ InitScripts
    /\ mode \in {"script", "imported"}
    /\ fs \in files
    /\ table \in tables
    /\ DATA_CACHE = NoCache
    /\ pc = [t \in Threads |-> "idle"]
    /\ loc = [t \in Threads |-> IdleLoc]
    /\ hist = NoHist
    /\ response = [t \in Threads |-> NoResponse]

Load(t) == Begin(t) \/ TryPath(t) \/ Walk(t) \/ Infer(t) \/ Read2(t)

\* concurrent requests while the pipeline writes and rewrites its output
Init == InitApi(SampleTables, {EmptyFs})

Next ==
    \/ \E t \in Threads : Load(t)
    \/ \E t \in Threads : Handle(t, FewCalls(mode))
    \/ OutputWritten
    \/ OutputRemoved

Spec == Init /\ [][Next]_vars

\* one request at a time over files that change at will
NextLoad ==
    \/ Load(1)
    \/ Handle(1, {Call("health", NoReq), Call("summary", NoReq)})
    \/ FilesChange

SpecLoad == Init /\ [][NextLoad]_vars

\* one request at a time, every request over every table
InitQuery == InitApi(Tables, {EmptyFs, [EmptyFs EXCEPT !.pp = "ok"]})

NextQuery ==
    \/ Load(1)
    \/ Handle(1, Calls(mode))

SpecQuery == InitQuery /\ [][NextQuery]_vars

\* the service is not running
InitNoApi ==
    /\ mode = "script"
    /\ fs = EmptyFs
    /\ table = <<>>
    /\ DATA_CACHE = NoCache
    /\ pc = [t \in Threads |-> "idle"]
    /\ loc = [t \in Threads |-> IdleLoc]
    /\ hist = NoHist
    /\ response = [t \in Threads |-> NoResponse]

\* one run of the consolidation job over any chunk folders
InitConsolidate ==
    /\ InitNoApi
    /\ chunks \in [ChunkIds -> ChunkStates]
    /\ output \in {NoOutput, OldOutput}
    /\ job \in {NewJob(path) : path \in BOOLEAN}
    /\ run = NewRun(SampleRow)

NextConsolidate == StartJob \/ ProcessChunk \/ Consolidate

SpecConsolidate == InitConsolidate /\ [][NextConsolidate]_vars

\* one run of the cleaning pipeline, followed for any one row
InitPipeline ==
    /\ InitNoApi
    /\ chunks = [c \in ChunkIds |-> [present |-> FALSE, files |-> <<>>]]
    /\ output = NoOutput
    /\ job = NewJob(FALSE)
    /\ run \in {NewRun(row) : row \in RawRows}

NextPipeline ==
    \/ Read
    \/ ValidityFilter
    \/ DeriveColumns
    \/ DateFilter
    \/ Enrichment
    \/ RangeFilter
    \/ Write

SpecPipeline == InitPipeline /\ [][NextPipeline]_vars

----------------------------------------------------------------------------
(* Properties *)

Loading == {"traverse", "walk", "infer", "read2"}

\* C1: a call of load_parquet_data that begins after a call has returned a
\* dataset reads no storage and returns the cached dataset
C1_LaterCallsReadNothing ==
    \A t \in Threads :
        loc[t].seen.loaded =>
            /\ pc[t] \notin Loading
            /\ pc[t] = "respond" =>
                  /\ "main_df" \in DOMAIN DATA_CACHE
                  /\ loc[t].df = DATA_CACHE["main_df"]

\* C2: with the cache test of the first definition, requests that arrive
\* while the cache is empty run the read-and-populate step at most once
\* between them, and the datasets they get are the same
C2_SingleFlight ==
    mode = "script" =>
        /\ Cardinality({t \in Threads : pc[t] \in Loading}) <= 1
        /\ \A t, u \in Threads :
              (pc[t] = "respond" /\ pc[u] = "respond"
               /\ loc[t].df.src # 0 /\ loc[u].df.src # 0)
                  => loc[t].df = loc[u].df

\* the rows the predicate of an answered POST /filter selects
TrueMatches(t) == MatchingRows(loc[t].df, response[t].req)

\* C3: the match count a filter response reports is the number of rows that
\* match before the truncation to the limit
C3_CountBeforeTruncation ==
    \A t \in Threads :
        (response[t].ep = "filter" /\ response[t].status = 200) =>
            /\ response[t].count = Len(TrueMatches(t))
            /\ response[t].req.limit # 0 =>
                  Len(response[t].data) <= response[t].req.limit

Facade == {"preview", "columns", "filter", "stats", "summary", "unique"}

\* C6: a facade call never reports a dataset that fails to load with the
\* bad-request status, nor a bad request with the internal-error or
\* dataset-unavailable status
C6_ErrorClassesDistinct ==
    \A t \in Threads :
        response[t].ep \in Facade =>
            /\ response[t].cause = "unavailable" => response[t].status # 400
            /\ response[t].cause = "badrequest" => response[t].status # 500

\* C4: after a run of the consolidation job, a chunk folder has been removed
\* only if the consolidated file was written
C4_DeletedOnlyAfterWrite ==
    (job.pc = "done" /\ Deleted # {}) =>
        /\ job.result = "path"
        /\ output = [state |-> "complete", content |-> job.all_data]

\* C4, amended: a chunk folder is removed only after its first parquet file
\* has been read and appended to the data held in memory
C4_DeletedOnlyAfterRead ==
    \A c \in Deleted :
        /\ chunks[c].files # <<>>
        /\ chunks[c].files[1] = "ok"
        /\ <<c, 1>> \in Range(job.all_data)

C4_Witness == job.pc = "done" /\ job.result = "None" /\ Deleted # {}

Answered(t) == pc[t] = "idle" /\ response[t].ep # "none"

\* C7: once a load attempt has failed, every request that begins later is
\* answered dataset-unavailable
C7_FailureIsFatal ==
    \A t \in Threads :
        (Answered(t) /\ loc[t].seen.failed) => response[t].cause = "unavailable"

\* C7, amended: a failed load caches nothing and is not remembered; a later
\* call fails only when its own attempt finds nothing readable
C7_FailureNotRemembered ==
    [][\A t \in Threads :
          (pc[t] # "respond" /\ pc'[t] = "respond" /\ loc'[t].df.src = 0) =>
              /\ DATA_CACHE' = DATA_CACHE
              /\ IF mode = "script"
                 THEN pc[t] = "walk" /\ WalkStatus(fs) # "ok"
                 ELSE pc[t] = "read2" /\ 0 \in Read2Srcs(fs)]_vars

C7_Witness ==
    \E t \in Threads :
        Answered(t) /\ loc[t].seen.failed /\ response[t].cause = "ok"

\* what C8 says of one step of a load
TriesInOrder(t) ==
    \* the search begins at the first candidate
    /\ (pc[t] = "idle" /\ pc'[t] \in Loading) =>
          pc'[t] = "traverse" /\ loc'[t].i = 1
    \* a read error is logged and the next candidate is tried
    /\ (pc[t] = "traverse" /\ loc'[t] # loc[t]
        /\ CandStatus(fs, loc[t].i) = "unreadable") =>
          loc'[t].printed = loc[t].i /\ loc'[t].i = loc[t].i + 1
    \* the first candidate read successfully is the dataset
    /\ (pc[t] \in Loading /\ loc[t].df.src = 0 /\ loc'[t].df.src \in Candidates) =>
          /\ pc[t] = "traverse"
          /\ loc'[t].df.src = loc[t].i
          /\ CandStatus(fs, loc[t].i) = "ok"
    \* the load fails only after every candidate has been tried
    /\ (pc[t] \in Loading /\ pc'[t] = "respond" /\ loc'[t].df.src = 0) =>
          loc[t].i = NumCandidates + 1

\* C8: a load tries the candidate locations in their listed order, goes on
\* to the next after a read error, takes the first that reads, and fails
\* only when all are exhausted
C8_CandidatesInOrder == [][\A t \in Threads : TriesInOrder(t)]_vars

\* the same of the first definition of load_parquet_data alone
FirstDefinitionTriesInOrder ==
    [][mode = "script" => \A t \in Threads : TriesInOrder(t)]_vars

\* C9: the stages a row goes through are an initial part of Read,
\* ValidityFilter, DeriveColumns, DateFilter, Enrichment, RangeFilter,
\* Write, and a row whose passenger_count is outside 1..8 goes no further
\* than ValidityFilter
C9_StagesInOrder ==
    /\ run.trace = SubSeq(Stages, 1, Len(run.trace))
    /\ run.row.passenger_count \notin 1..8 => Len(run.trace) <= 2

C9_Witness ==
    /\ run.row.passenger_count = 9
    /\ run.stage = "Done"
    /\ run.droppedAt = "ValidityFilter"

\* a row that DateFilter has seen with pickup and dropoff at one instant
SameInstant ==
    /\ Len(run.trace) >= 4
    /\ run.row.tpep_pickup_datetime.k = "time"
    /\ run.row.tpep_dropoff_datetime.k = "time"
    /\ UnixTime(run.row.tpep_pickup_datetime)
         = UnixTime(run.row.tpep_dropoff_datetime)

\* C10: a row whose pickup and dropoff are the same instant reaches
\* RangeFilter and is dropped there
C10_DroppedByRangeFilter == SameInstant => run.droppedAt = "RangeFilter"

\* C10, amended: such a row is dropped by DateFilter and reaches neither
\* Enrichment nor RangeFilter
C10_DroppedByDateFilter ==
    SameInstant => run.droppedAt = "DateFilter" /\ Len(run.trace) = 4

C10_Witness == SameInstant /\ run.stage = "Done"

\* an answered filter request, of either route, over a dataset that loaded
Filtered(t) ==
    /\ response[t].ep \in {"filter", "filter_get"}
    /\ response[t].cause # "unavailable"

\* C11: a filter with operator contains on a numeric column is answered
\* with a bad-request error and returns no row set
C11_ContainsRejectsNumeric ==
    \A t \in Threads :
        (/\ Filtered(t)
         /\ LowerOp(response[t].req.operator) = "contains"
         /\ response[t].req.column = "fare") =>
            /\ response[t].status = 400
            /\ response[t].cause = "badrequest"
            /\ response[t].data = <<>>

\* the answer to a request that is refused for what names
Refused(t, names) ==
    /\ response[t].status = 400
    /\ response[t].cause = "badrequest"
    /\ response[t].detail = names
    /\ response[t].data = <<>>

\* the column check comes first, so a request wrong in both names the column
UnknownNames(t) ==
    IF response[t].req.column \notin Range(Columns) THEN "column" ELSE "operator"

KnownOperator(ep, op) ==
    IF ep = "filter" THEN LowerOp(op) \in Operators ELSE op \in Operators

Uncoercible(req) ==
    /\ req.column = "fare"
    /\ req.value.k = "str"
    /\ ~ParseFloat(req.value.s).ok

\* C13: a filter with eq, gt, lt, gte or lte whose value cannot be coerced
\* to the type of the column is refused as an invalid value, and is never
\* answered with a result
C13_UncoercibleValueRefused ==
    \A t \in Threads :
        (/\ Filtered(t)
         /\ LowerOp(response[t].req.operator) \in {"eq"} \cup Ordering
         /\ KnownOperator(response[t].ep, response[t].req.operator)
         /\ Uncoercible(response[t].req)) =>
            Refused(t, "value")

\* the numbers a comma-delimited string lists, in tenths
ListedNumbers(text) ==
    {ParseFloat(Split(text)[j]).n10 : j \in DOMAIN Split(text)}

\* a string that lists numbers, given for the numeric column
ListsNumbers(req) ==
    /\ req.column = "fare"
    /\ req.value.k = "str"
    /\ \A j \in DOMAIN Split(req.value.s) :
          LET q == ParseFloat(Split(req.value.s)[j])
          IN q.ok /\ ~q.nan

\* the rows whose number is one of those listed, cut to the limit
RowsListed(df, req) ==
    LET Test(row) ==
            row.fare.k = "int" /\ 10 * row.fare.n \in ListedNumbers(req.value.s)
        rows == SelectSeq(df.rows, Test)
    IN IF req.limit # 0 THEN HeadRows(rows, req.limit) ELSE rows

\* C14: operator in with a comma-delimited string of numbers on the numeric
\* column returns the rows whose value is one of the numbers, as the list of
\* those numbers would
C14_DelimitedStringAsList ==
    \A t \in Threads :
        (/\ Filtered(t)
         /\ LowerOp(response[t].req.operator) = "in"
         /\ KnownOperator(response[t].ep, response[t].req.operator)
         /\ ListsNumbers(response[t].req)) =>
            /\ response[t].status = 200
            /\ response[t].count = Len(RowsListed(loc[t].df, response[t].req))

\* C15: the rows a filter with operator contains returns have no null in
\* the column searched, whatever the search value
C15_ContainsSkipsNulls ==
    \A t \in Threads :
        (/\ Filtered(t)
         /\ LowerOp(response[t].req.operator) = "contains"
         /\ response[t].status = 200) =>
            \A j \in DOMAIN response[t].data :
                response[t].data[j][response[t].req.column] # NullCell

\* the dataset load_parquet_data makes of the table, read from source src
Loaded(src) ==
    [src |-> src,
     zoneType |-> IF mode = "script" THEN InferZoneType(table) ELSE "object",
     rows |-> table]

\* C16: whatever requests have been answered, with a result or with a
\* bad-request error, the cached dataset has the rows, columns and column
\* types it had when it was loaded
C16_CacheAsLoaded ==
    "main_df" \in DOMAIN DATA_CACHE =>
        /\ DATA_CACHE["main_df"].src # 0
        /\ DATA_CACHE["main_df"] = Loaded(DATA_CACHE["main_df"].src)

C16_Witness ==
    /\ "main_df" \in DOMAIN DATA_CACHE
    /\ Len(table) = MaxRows
    /\ pc[1] = "idle"
    /\ response[1].ep = "filter"
    /\ response[1].status = 200
    /\ Len(response[1].data) = 1
    /\ loc[1].seen.loaded

\* C17: when the consolidation job returns a path, every parquet file of
\* every chunk folder it removed is in the consolidated file
C17_NoFileLost ==
    (job.pc = "done" /\ job.result = "path") =>
        \A c \in Deleted :
            \A f \in DOMAIN chunks[c].files :
                <<c, f>> \in Range(output.content)

\* C18: a row that reaches Enrichment has a positive duration and a positive
\* fare_amount, so speed_mph and tip_percentage are the quotients and not
\* the zero of the otherwise branch, and a row that is written has a
\* positive speed_mph
C18_FallbacksNeverTaken ==
    /\ run.stage = "Enrichment" =>
          /\ UnixTime(run.row.tpep_dropoff_datetime)
               > UnixTime(run.row.tpep_pickup_datetime)
          /\ run.row.fare_amount > 0
    /\ Len(run.trace) >= 5 =>
          /\ run.row.trip_duration_seconds > 0
          /\ run.row.speed_mph.den = run.row.trip_duration_seconds
          /\ run.row.tip_percentage.den = run.row.fare_amount
          /\ run.row.speed_mph.num > 0
    /\ run.written => run.row.speed_mph.num > 0

C18_Witness ==
    /\ run.written
    /\ run.stage = "Done"
    /\ run.row.tip_percentage.num > 0
    /\ run.row.speed_mph.num > 0

====
